---------------------------- MODULE Spec2Model ----------------------------
(***************************************************************************)
(* smallsh (src/smallsh.c): the interactive loop of main, the built-ins,   *)
(* executeCommand on both sides of fork, the two signal handlers, and the  *)
(* kernel's view of the children (running, stopped, zombie, reaped).       *)
(*                                                                         *)
(* A line of input is a sequence of one-character strings; a token is a    *)
(* non-empty such sequence; the C null pointer in args[] is the empty      *)
(* sequence (strtok never yields an empty token).                          *)
(* Diagnostics written to stderr (perror, "Error reading input.") and the  *)
(* working directory changed by cd are not part of the state.              *)
(* Spec and SpecLaunch take the processing of a line as one step; SpecLine *)
(* follows expandPID and parseInput through main's buffers, one iteration  *)
(* of their loops at a time.                                               *)
(***************************************************************************)
EXTENDS Integers, Sequences, FiniteSets, TLC

(*************************** bounds of the model ***************************)
\* children forked over one run; fork fails once they are used up
MaxChildren == 2
\* tokens of the invocation a launched child starts from (SpecLaunch)
MaxArgs == 5

(***************************** program constants ***************************)
SIGINT == 2
SIGKILL == 9
SIGSEGV == 11
SIGCONT == 18
SIGSTOP == 19
SIGTSTP == 20
EXIT_FAILURE == 1
STDIN_FILENO == 0
STDOUT_FILENO == 1
\* the value getpid() returns in the interpreter
ShellPid == 4567

(********************************* strings *********************************)
NULL == <<>>
SP == " "
W_exit == <<"e", "x", "i", "t">>
W_cd == <<"c", "d">>
W_status == <<"s", "t", "a", "t", "u", "s">>
W_amp == <<"&">>
W_lt == <<"<">>
W_gt == <<">">>
W_f == <<"f">>
W_g == <<"g">>
pid_placeholder == <<"$", "$">>

Digit(d) == CASE d = 0 -> "0" [] d = 1 -> "1" [] d = 2 -> "2" [] d = 3 -> "3"
              [] d = 4 -> "4" [] d = 5 -> "5" [] d = 6 -> "6" [] d = 7 -> "7"
              [] d = 8 -> "8" [] d = 9 -> "9"

\* sprintf(pid_str, "%d", pid) for pid >= 0
RECURSIVE Decimal(_)
Decimal(n) == IF n < 10 THEN <<Digit(n)>>
              ELSE Decimal(n \div 10) \o <<Digit(n % 10)>>

\* strstr(input, "$$"): the 1-based place of the first occurrence, 0 if none
StrStr(s, pat) ==
    LET hits == {i \in 1..(Len(s) - Len(pat) + 1) :
                    SubSeq(s, i, i + Len(pat) - 1) = pat}
    IN IF hits = {} THEN 0 ELSE CHOOSE i \in hits : \A j \in hits : i <= j

expandPID_FirstOnly(input) ==
    LET found == StrStr(input, pid_placeholder)
    IN IF found = 0 THEN input
       ELSE SubSeq(input, 1, found - 1) \o Decimal(ShellPid)
            \o SubSeq(input, found + Len(pid_placeholder), Len(input))

\* expandPID: cut at the first "$$", copy head, pid and tail, and look again
RECURSIVE expandPID(_)
expandPID(input) ==
    LET found == StrStr(input, pid_placeholder)
    IN IF found = 0 THEN input
       ELSE expandPID(SubSeq(input, 1, found - 1) \o Decimal(ShellPid)
                      \o SubSeq(input, found + Len(pid_placeholder), Len(input)))

\* parseInput: strtok(input, " ") until it yields no token
RECURSIVE StrTok(_, _, _, _)
StrTok(s, i, cur, acc) ==
    IF i > Len(s) THEN (IF cur = <<>> THEN acc ELSE Append(acc, cur))
    ELSE IF s[i] = SP
         THEN StrTok(s, i + 1, <<>>, IF cur = <<>> THEN acc ELSE Append(acc, cur))
         ELSE StrTok(s, i + 1, Append(cur, s[i]), acc)

parseInput(input) == StrTok(input, 1, <<>>, <<>>)

\* args[i] with the C index i; the entries from arg_count on are null
Arg(args, i) == IF i + 1 <= Len(args) THEN args[i + 1] ELSE NULL

(*************************** wait status encoding **************************)
NoTerm == [kind |-> "none", n |-> 0, core |-> FALSE]
Exited(n) == [kind |-> "exit", n |-> n, core |-> FALSE]
Signaled(s, core) == [kind |-> "signal", n |-> s, core |-> core]

\* the int waitpid stores for a terminated child
TermStatus(t) == IF t.kind = "exit" THEN (t.n % 256) * 256
                 ELSE t.n + (IF t.core THEN 128 ELSE 0)
\* the int waitpid(WUNTRACED) stores for a stopped child
StopStatus(sig) == sig * 256 + 127

WTERMSIG(s) == s % 128
WEXITSTATUS(s) == (s \div 256) % 256
WIFEXITED(s) == WTERMSIG(s) = 0
WIFSIGNALED(s) == WTERMSIG(s) # 0 /\ WTERMSIG(s) # 127

(******************************** descriptors ******************************)
Tty == [kind |-> "tty", path |-> <<>>]
DevNull == [kind |-> "file", path |-> <<"/", "d", "e", "v", "/", "n", "u", "l", "l">>]
File(path) == [kind |-> "file", path |-> path]

\* the descriptor table a child inherits: the three standard streams
StdFds == (0 :> Tty) @@ (1 :> Tty) @@ (2 :> Tty)

\* open() returns the lowest descriptor not in use
LowestFree(fds) ==
    CHOOSE n \in 0..Cardinality(DOMAIN fds) :
        n \notin DOMAIN fds /\ \A m \in 0..(n - 1) : m \in DOMAIN fds
Open(fds, fd, target) == (fd :> target) @@ fds
Dup2(fds, old, new) == IF old = new THEN fds ELSE (new :> fds[old]) @@ fds
Close_Skipped(fds, fd) == fds
Close(fds, fd) == [d \in (DOMAIN fds) \ {fd} |-> fds[d]]

(******************* executeCommand, child side (lines 64-151) *************)
\* the locals of the child while it scans args: opens counts the calls of
\* open() made so far, exited is set once the child has called exit()
ChildLocals(args) ==
    [args |-> args, fds |-> StdFds, in_redir |-> -1, out_redir |-> -1,
     opens |-> 0, exited |-> FALSE]

\* one "<" or ">" at C index i: open the next token, dup2, close, args[i] = NULL.
\* failAt is the call of open() that fails for this child (0: none does);
\* open(NULL) fails always.
Redirect_ArgKept(st, i, isInput, failAt) ==
    LET path == Arg(st.args, i + 1)
        n == st.opens + 1
        fd == LowestFree(st.fds)
        std == IF isInput THEN STDIN_FILENO ELSE STDOUT_FILENO
    IN IF path = NULL \/ n = failAt
       THEN [st EXCEPT !.opens = n, !.exited = TRUE]
       ELSE [st EXCEPT !.opens = n,
                       !.fds = Close(Dup2(Open(@, fd, File(path)), fd, std), fd),
                       !.in_redir = IF isInput THEN fd ELSE @,
                       !.out_redir = IF isInput THEN @ ELSE fd]
Redirect(st, i, isInput, failAt) ==
    LET path == Arg(st.args, i + 1)
        n == st.opens + 1
        fd == LowestFree(st.fds)
        std == IF isInput THEN STDIN_FILENO ELSE STDOUT_FILENO
    IN IF path = NULL \/ n = failAt
       THEN [st EXCEPT !.opens = n, !.exited = TRUE]
       ELSE [st EXCEPT !.opens = n,
                       !.fds = Close(Dup2(Open(@, fd, File(path)), fd, std), fd),
                       !.in_redir = IF isInput THEN fd ELSE @,
                       !.out_redir = IF isInput THEN @ ELSE fd,
                       !.args[i + 1] = NULL]

\* for (i = 0; args[i] != NULL; i++) { ... }
RECURSIVE RedirectLoop(_, _, _)
RedirectLoop(st, i, failAt) ==
    IF st.exited \/ Arg(st.args, i) = NULL THEN st
    ELSE IF Arg(st.args, i) = W_lt
         THEN RedirectLoop(Redirect(st, i, TRUE, failAt), i + 1, failAt)
    ELSE IF Arg(st.args, i) = W_gt
         THEN RedirectLoop(Redirect(st, i, FALSE, failAt), i + 1, failAt)
    ELSE RedirectLoop(st, i + 1, failAt)

\* one default stream of a background child: open /dev/null, dup2, close
NullStream(st, std, failAt) ==
    LET n == st.opens + 1
        fd == LowestFree(st.fds)
    IN IF n = failAt
       THEN [st EXCEPT !.opens = n, !.exited = TRUE]
       ELSE [st EXCEPT !.opens = n,
                       !.fds = Close(Dup2(Open(@, fd, DevNull), fd, std), fd)]

\* if (is_background) { if (in_redir == -1) ...; if (out_redir == -1) ... }
BackgroundDefaults_Unconditional(st, is_background, failAt) ==
    IF st.exited \/ ~is_background THEN st
    ELSE LET a == NullStream(st, STDIN_FILENO, failAt)
         IN IF a.exited THEN a ELSE NullStream(a, STDOUT_FILENO, failAt)
BackgroundDefaults(st, is_background, failAt) ==
    IF st.exited \/ ~is_background THEN st
    ELSE LET a == IF st.in_redir = -1 THEN NullStream(st, STDIN_FILENO, failAt)
                  ELSE st
         IN IF a.exited \/ a.out_redir # -1 THEN a
            ELSE NullStream(a, STDOUT_FILENO, failAt)

\* the argument vector execvp reads: args up to its first null entry
RECURSIVE ArgVector(_, _)
ArgVector(args, i) ==
    IF Arg(args, i) = NULL THEN <<>>
    ELSE <<Arg(args, i)>> \o ArgVector(args, i + 1)

\* everything the child does between its signal() calls and execvp
PrepareExec(args, is_background, failAt) ==
    BackgroundDefaults(RedirectLoop(ChildLocals(args), 0, failAt),
                       is_background, failAt)

(********************************** state **********************************)
VARIABLES
    pc,                 \* where main is: "reap", "prompt", "fgwait", "exited", "crashed"
    last_status,        \* the global of line 28
    is_foreground_only, \* the static of handleSIGTSTP, the interpreter's copy
    fgpid,              \* pid of executeCommand while it waits (0 otherwise)
    child,              \* the children, by pid
    out,                \* the last message main wrote to stdout
    banner,             \* the last banner the interpreter's SIGTSTP handler wrote
    lastKind,           \* history: the kind of line the current cycle read
    launched,           \* history: the pid the current cycle forked (0: none)
    assigns,            \* history: assignments to last_status in the current cycle
    fgOutcome,          \* history: how the last waited-for foreground child ended
    reports,            \* history: how often the Reaper reported each pid
    main_input,         \* main's buffer input while one line is processed
    main_args           \* the tokens parseInput has stored in main's args so far

vars == <<pc, last_status, is_foreground_only, fgpid, child, out, banner,
          lastKind, launched, assigns, fgOutcome, reports, main_input, main_args>>

NoBanner == [msg |-> "", bytes |-> 0]
Pids == 1..MaxChildren
ExitCodes == {0, 1}

NoChild ==
    [phase |-> "none", bg |-> FALSE, cmd |-> <<>>, args |-> <<>>, sigint |-> "dfl",
     sigtstp |-> "dfl", fo |-> 0, fds |-> StdFds, argv |-> <<>>,
     stop |-> 0, notify |-> FALSE, term |-> NoTerm]

\* the child as fork() leaves it: a copy of the interpreter, handlers included
\* (cmd keeps the tokens executeCommand was called with)
Forked(args, is_background, fo) ==
    [NoChild EXCEPT !.phase = "forked", !.bg = is_background, !.cmd = args,
                    !.args = args,
                    !.sigint = "handler", !.sigtstp = "handler", !.fo = fo]

\* a terminated child: nothing of it is left but its wait status
Zombie(ch, term) ==
    [NoChild EXCEPT !.phase = "zombie", !.bg = ch.bg, !.term = term]
\* a child waitpid has collected
Reaped(ch) == [NoChild EXCEPT !.phase = "reaped", !.bg = ch.bg]

Live(ch) == ch.phase \in {"forked", "sigint_set", "ready", "running"}
ShellRuns == pc \in {"reap", "prompt", "fgwait"}

EnterMsg == "\nEntering foreground-only mode (& is now ignored)\n"
ExitMsg == "\nExiting foreground-only mode\n"

(****************************** signal handlers ****************************)
\* handleSIGTSTP: toggle the static, write one of the two banners
ToggledMode(mode) == IF mode = 0 THEN 1 ELSE 0
BannerOf_FixedLength(mode) == IF mode # 0 THEN [msg |-> EnterMsg, bytes |-> 30]
                              ELSE [msg |-> ExitMsg, bytes |-> 30]
BannerOf(mode) == IF mode # 0 THEN [msg |-> EnterMsg, bytes |-> 50]
                  ELSE [msg |-> ExitMsg, bytes |-> 30]

\* main, lines 256-268: both signals are caught by the interpreter
ShellDisposition(sig) == "handler"

\* what the kernel does by default with the signals of the model
DefaultAction(sig) ==
    IF sig \in {SIGSTOP, SIGTSTP} THEN "stop"
    ELSE IF sig = SIGCONT THEN "continue" ELSE "terminate"

(******************** executeCommand, child side, as steps *****************)
\* signal(SIGINT, is_background ? SIG_IGN : SIG_DFL)
ChildSigintDisposition_AlwaysDefault(is_background) == "dfl"
ChildSigintDisposition(is_background) == IF is_background THEN "ign" ELSE "dfl"
\* signal(SIGTSTP, SIG_IGN), in both branches
ChildSigtstpDisposition(is_background) == "ign"

\* line 66 or 70: the child's first call of signal()
ChildSignalInt(c) ==
    /\ ShellRuns
    /\ child[c].phase = "forked" /\ child[c].stop = 0
    /\ child' = [child EXCEPT ![c].phase = "sigint_set",
                              ![c].sigint = ChildSigintDisposition(child[c].bg)]
    /\ UNCHANGED <<pc, last_status, is_foreground_only, fgpid, out, banner,
                   lastKind, launched, assigns, fgOutcome, reports, main_input, main_args>>

\* line 67 or 71: its second
ChildSignalTstp(c) ==
    /\ ShellRuns
    /\ child[c].phase = "sigint_set" /\ child[c].stop = 0
    /\ child' = [child EXCEPT ![c].phase = "ready",
                              ![c].sigtstp = ChildSigtstpDisposition(child[c].bg)]
    /\ UNCHANGED <<pc, last_status, is_foreground_only, fgpid, out, banner,
                   lastKind, launched, assigns, fgOutcome, reports, main_input, main_args>>

\* the child after the redirections and execvp. how: "ok" (the image is
\* replaced), "fail" (execvp returns -1), "segv" (execvp reads its null file
\* argument: undefined, the library may fault instead of failing)
AfterExec(ch, failAt, how) ==
    LET st == PrepareExec(ch.args, ch.bg, failAt)
    IN IF st.exited THEN Zombie(ch, Exited(EXIT_FAILURE))
       ELSE IF how = "segv" THEN Zombie(ch, Signaled(SIGSEGV, TRUE))
       ELSE IF how = "fail" THEN Zombie(ch, Exited(EXIT_FAILURE))
       ELSE [ch EXCEPT !.phase = "running", !.args = <<>>, !.fo = 0,
                       !.fds = st.fds, !.argv = ArgVector(st.args, 0)]

ExecOutcomes(ch, failAt) ==
    IF Arg(PrepareExec(ch.args, ch.bg, failAt).args, 0) = NULL
    THEN {"fail", "segv"} ELSE {"ok", "fail"}

ChildExec(c) ==
    /\ ShellRuns
    /\ child[c].phase = "ready" /\ child[c].stop = 0
    /\ \E failAt \in 0..PrepareExec(child[c].args, child[c].bg, 0).opens :
         \E how \in ExecOutcomes(child[c], failAt) :
            child' = [child EXCEPT ![c] = AfterExec(child[c], failAt, how)]
    /\ UNCHANGED <<pc, last_status, is_foreground_only, fgpid, out, banner,
                   lastKind, launched, assigns, fgOutcome, reports, main_input, main_args>>

\* the launched program ends by itself
ChildExit(c) ==
    /\ ShellRuns
    /\ child[c].phase = "running" /\ child[c].stop = 0
    /\ \E code \in ExitCodes :
         child' = [child EXCEPT ![c] = Zombie(child[c], Exited(code))]
    /\ UNCHANGED <<pc, last_status, is_foreground_only, fgpid, out, banner,
                   lastKind, launched, assigns, fgOutcome, reports, main_input, main_args>>

(***************************** signal delivery *****************************)
ChildDisposition(ch, sig) ==
    IF sig = SIGINT THEN ch.sigint
    ELSE IF sig = SIGTSTP THEN ch.sigtstp ELSE "dfl"

SentToChild == {SIGINT, SIGTSTP, SIGKILL, SIGSTOP, SIGCONT}

\* a signal reaches child c; a stopped child acts on SIGKILL and SIGCONT only.
\* A child that still has the interpreter's handler for SIGTSTP runs it: it
\* toggles its copy of the static, fo, and writes BannerOf(fo') to the terminal.
\* SIGSTOP and SIGCONT are followed for the child the interpreter waits for:
\* waitpid(-1, ..., WNOHANG) does not see whether another child is stopped.
Deliver(c, sig) ==
    LET ch == child[c]
        disp == ChildDisposition(ch, sig)
        act == DefaultAction(sig)
    IN /\ ShellRuns
       /\ Live(ch)
       /\ ch.stop # 0 => sig \in {SIGKILL, SIGCONT}
       /\ sig \in {SIGSTOP, SIGCONT} => (pc = "fgwait" /\ c = fgpid)
       /\ IF disp = "handler" /\ sig = SIGTSTP
          THEN child' = [child EXCEPT ![c].fo = ToggledMode(ch.fo)]
          ELSE IF disp # "dfl" THEN child' = child
          ELSE IF act = "terminate"
               THEN child' = [child EXCEPT ![c] = Zombie(ch, Signaled(sig, FALSE))]
          ELSE IF act = "stop"
               THEN child' = [child EXCEPT ![c].stop = sig, ![c].notify = TRUE]
          ELSE child' = [child EXCEPT ![c].stop = 0, ![c].notify = FALSE]
       /\ UNCHANGED <<pc, last_status, is_foreground_only, fgpid, out, banner,
                      lastKind, launched, assigns, fgOutcome, reports, main_input, main_args>>

\* SIGINT or SIGTSTP reaches the interpreter (SA_RESTART: a blocked waitpid or
\* read goes on afterwards)
ShellSignal(sig) ==
    LET disp == ShellDisposition(sig)
    IN /\ ShellRuns
       /\ IF disp = "handler"
          THEN /\ pc' = pc
               /\ IF sig = SIGTSTP
                  THEN /\ is_foreground_only' = ToggledMode(is_foreground_only)
                       /\ banner' = BannerOf(ToggledMode(is_foreground_only))
                  ELSE UNCHANGED <<is_foreground_only, banner>>
          ELSE /\ pc' = IF disp = "ign" THEN pc
                        ELSE IF DefaultAction(sig) = "stop" THEN "suspended"
                        ELSE "killed"
               /\ UNCHANGED <<is_foreground_only, banner>>
       /\ UNCHANGED <<last_status, fgpid, child, out, lastKind, launched,
                      assigns, fgOutcome, reports, main_input, main_args>>

(************************** the lines that are typed ***********************)
RECURSIVE Join(_)
Join(ts) == IF Len(ts) = 0 THEN <<>>
            ELSE IF Len(ts) = 1 THEN ts[1]
            ELSE ts[1] \o <<SP>> \o Join(Tail(ts))

TokSeqs(W, n) == UNION {[1..k -> W] : k \in 1..n}

\* external commands, in the foreground and in the background
CommandLines ==
    {Join(<<W_f>>), Join(<<W_f, W_amp>>), Join(<<W_amp>>)}
\* the built-ins, with and without arguments and a trailing "&"
BuiltinLines ==
    {Join(<<W_exit>>), Join(<<W_cd>>), Join(<<W_cd, pid_placeholder>>),
     Join(<<W_status>>), Join(<<W_status, W_amp>>), Join(<<W_cd, W_amp>>)}
\* the empty line, a line of one space, a comment, and a line with spaces
\* before, between and after its tokens
SpecialLines ==
    {<<>>, <<SP>>, <<"#", SP, "f">>, <<SP, "f", SP, SP, "&", SP>>}
Lines == CommandLines \cup BuiltinLines \cup SpecialLines

(********************** main, from fgets to executeCommand *****************)
\* printStatus
StatusMessage_RawStatus(s) == IF WIFEXITED(s) THEN <<"exit value", s>>
                              ELSE <<"terminated by signal", WTERMSIG(s)>>
StatusMessage(s) == IF WIFEXITED(s) THEN <<"exit value", WEXITSTATUS(s)>>
                    ELSE <<"terminated by signal", WTERMSIG(s)>>

\* lines 320-326: a last token "&" asks for the background and is removed
IsBackground(args) == Len(args) > 0 /\ args[Len(args)] = W_amp
StripAmp(args) == IF IsBackground(args) THEN SubSeq(args, 1, Len(args) - 1)
                  ELSE args

\* the background flag main hands to executeCommand (line 334)
LaunchInBackground(is_background, mode) == is_background

\* fork() gives the lowest unused pid of the model, and fails when none is left
FreePids(ch) == {p \in Pids : ch[p].phase = "none"}
NextPid(ch) == CHOOSE p \in FreePids(ch) : \A q \in FreePids(ch) : p <= q

\* executeCommand, parent side up to the wait (lines 59, 153-168)
executeCommand(s, args, is_background, forkOK) ==
    IF forkOK /\ FreePids(s.child) # {}
    THEN LET pid == NextPid(s.child)
             kids == [s.child EXCEPT
                        ![pid] = Forked(args, is_background, s.is_foreground_only)]
         IN IF ~is_background
            THEN [s EXCEPT !.pc = "fgwait", !.fgpid = pid, !.child = kids,
                           !.launched = pid]
            ELSE [s EXCEPT !.pc = "reap", !.child = kids, !.launched = pid,
                           !.out = <<"Background pid is", pid>>]
    ELSE [s EXCEPT !.pc = "reap"]

\* one pass of the loop body from line 301 on, for a line fgets has read.
\* ub: what strcmp(args[0], ...) does when args[0] is null (undefined):
\* "crash" (the read faults) or "continue" (it compares unequal)
LineEffect_BuiltinAfterAmpCheck(s, line, forkOK, ub) ==
    LET input == line
        parsed == parseInput(expandPID(input))
        is_background == IsBackground(parsed)
        args == StripAmp(parsed)
    IN IF Len(input) = 0 \/ input[1] = "#" THEN [s EXCEPT !.pc = "reap"]
       ELSE IF Arg(args, 0) = NULL
            THEN IF ub = "crash" THEN [s EXCEPT !.pc = "crashed"]
                 ELSE executeCommand(s, args,
                        LaunchInBackground(is_background, s.is_foreground_only),
                        forkOK)
       ELSE IF is_background
            THEN executeCommand(s, args,
                   LaunchInBackground(is_background, s.is_foreground_only), forkOK)
       ELSE IF Arg(args, 0) = W_exit THEN [s EXCEPT !.pc = "exited"]
       ELSE IF Arg(args, 0) = W_cd THEN [s EXCEPT !.pc = "reap"]
       ELSE IF Arg(args, 0) = W_status
            THEN [s EXCEPT !.pc = "reap", !.out = StatusMessage(s.last_status)]
       ELSE executeCommand(s, args,
              LaunchInBackground(is_background, s.is_foreground_only), forkOK)
LineEffect(s, line, forkOK, ub) ==
    LET input == line
        parsed == parseInput(expandPID(input))
        is_background == IsBackground(parsed)
        args == StripAmp(parsed)
    IN IF Len(input) = 0 \/ input[1] = "#" THEN [s EXCEPT !.pc = "reap"]
       ELSE IF Arg(args, 0) = NULL
            THEN IF ub = "crash" THEN [s EXCEPT !.pc = "crashed"]
                 ELSE executeCommand(s, args,
                        LaunchInBackground(is_background, s.is_foreground_only),
                        forkOK)
       ELSE IF Arg(args, 0) = W_exit THEN [s EXCEPT !.pc = "exited"]
       ELSE IF Arg(args, 0) = W_cd THEN [s EXCEPT !.pc = "reap"]
       ELSE IF Arg(args, 0) = W_status
            THEN [s EXCEPT !.pc = "reap", !.out = StatusMessage(s.last_status)]
       ELSE executeCommand(s, args,
              LaunchInBackground(is_background, s.is_foreground_only), forkOK)

\* the kind of a line, read off its text: "skip" (empty, spaces only, a
\* comment, or only "&"), a built-in's name, "bg" or "fg"
LineKind(line) ==
    LET toks == parseInput(expandPID(line))
        amp == Len(toks) > 0 /\ toks[Len(toks)] = W_amp
        rest == IF amp THEN SubSeq(toks, 1, Len(toks) - 1) ELSE toks
    IN IF Len(line) > 0 /\ line[1] = "#" THEN "skip"
       ELSE IF Len(rest) = 0 THEN "skip"
       ELSE IF rest[1] = W_exit THEN "exit"
       ELSE IF rest[1] = W_cd THEN "cd"
       ELSE IF rest[1] = W_status THEN "status"
       ELSE IF amp THEN "bg" ELSE "fg"

\* the outcomes of the undefined strcmp and of fork() that line can meet
Dispatch(line) ==
    LET args == StripAmp(parseInput(expandPID(line)))
    IN IF Len(line) = 0 \/ line[1] = "#" THEN "skip"
       ELSE IF Arg(args, 0) = NULL THEN "null"
       ELSE IF Arg(args, 0) \in {W_exit, W_cd, W_status} THEN "builtin"
       ELSE "launch"
UbOutcomes(line) == IF Dispatch(line) = "null" THEN {"crash", "continue"}
                    ELSE {"continue"}
ForkOutcomes(line) == IF Dispatch(line) \in {"null", "launch"} THEN BOOLEAN
                      ELSE {TRUE}

Here == [pc |-> pc, last_status |-> last_status,
         is_foreground_only |-> is_foreground_only, fgpid |-> fgpid,
         child |-> child, out |-> out, launched |-> launched]

ReadLine ==
    /\ pc = "prompt"
    /\ \E line \in Lines :
       \E forkOK \in ForkOutcomes(line), ub \in UbOutcomes(line) :
         LET r == LineEffect(Here, line, forkOK, ub)
         IN /\ pc' = r.pc
            /\ fgpid' = r.fgpid
            /\ child' = r.child
            /\ out' = r.out
            /\ launched' = r.launched
            /\ lastKind' = LineKind(line)
    /\ assigns' = 0
    /\ UNCHANGED <<last_status, is_foreground_only, banner, fgOutcome, reports, main_input, main_args>>

\* fgets returns NULL: the cycle is skipped
ReadError ==
    /\ pc = "prompt"
    /\ pc' = "reap"
    /\ lastKind' = "skip"
    /\ assigns' = 0
    /\ UNCHANGED <<last_status, is_foreground_only, fgpid, child, out, banner,
                   launched, fgOutcome, reports, main_input, main_args>>

(************************ executeCommand, the wait *************************)
\* what waitpid(pid, &status, WUNTRACED) has to return for child ch
WaitReady(ch) == ch.phase = "zombie" \/ (Live(ch) /\ ch.stop # 0 /\ ch.notify)
WaitStatus(ch) == IF ch.phase = "zombie" THEN TermStatus(ch.term)
                  ELSE StopStatus(ch.stop)
\* the do-while ends when this holds of status
WaitIsOver_NoLoop(status) == TRUE
WaitIsOver(status) == WIFEXITED(status) \/ WIFSIGNALED(status)

FgWait_AssignInLoop ==
    /\ pc = "fgwait"
    /\ WaitReady(child[fgpid])
    /\ LET ch == child[fgpid]
           status == WaitStatus(ch)
           after == IF ch.phase = "zombie" THEN Reaped(ch)
                    ELSE [ch EXCEPT !.notify = FALSE]
       IN /\ child' = [child EXCEPT ![fgpid] = after]
          /\ last_status' = status
          /\ assigns' = assigns + 1
          /\ fgOutcome' = IF ch.phase = "zombie"
                          THEN <<ch.term.kind, ch.term.n>>
                          ELSE <<"stopped", ch.stop>>
          /\ IF WaitIsOver(status)
             THEN pc' = "reap" /\ fgpid' = 0
             ELSE UNCHANGED <<pc, fgpid>>
    /\ UNCHANGED <<is_foreground_only, out, banner, lastKind, launched, reports, main_input, main_args>>

FgWait ==
    /\ pc = "fgwait"
    /\ WaitReady(child[fgpid])
    /\ LET ch == child[fgpid]
           status == WaitStatus(ch)
           after == IF ch.phase = "zombie" THEN Reaped(ch)
                    ELSE [ch EXCEPT !.notify = FALSE]
       IN /\ child' = [child EXCEPT ![fgpid] = after]
          /\ IF WaitIsOver(status)
             THEN /\ last_status' = status
                  /\ assigns' = assigns + 1
                  /\ fgOutcome' = IF ch.phase = "zombie"
                                  THEN <<ch.term.kind, ch.term.n>>
                                  ELSE <<"stopped", ch.stop>>
                  /\ pc' = "reap"
                  /\ fgpid' = 0
             ELSE UNCHANGED <<last_status, assigns, fgOutcome, pc, fgpid>>
    /\ UNCHANGED <<is_foreground_only, out, banner, lastKind, launched, reports, main_input, main_args>>

(********************************* the Reaper ******************************)
\* lines 286-295: waitpid(-1, &status, WNOHANG) found a terminated child
ReapMessage(pid, status) ==
    IF WIFEXITED(status)
    THEN <<"Background pid", pid, "is done: exit value", WEXITSTATUS(status)>>
    ELSE IF WIFSIGNALED(status)
         THEN <<"Background pid", pid, "is done: terminated by signal",
                WTERMSIG(status)>>
    ELSE <<"Background pid", pid, "is done: ", 0>>

ReapOne_SetsStatus ==
    /\ pc = "reap"
    /\ \E c \in Pids :
         /\ child[c].phase = "zombie"
         /\ child' = [child EXCEPT ![c] = Reaped(child[c])]
         /\ out' = ReapMessage(c, TermStatus(child[c].term))
         /\ reports' = [reports EXCEPT ![c] = @ + 1]
         /\ last_status' = TermStatus(child[c].term)
    /\ assigns' = assigns + 1
    /\ UNCHANGED <<pc, is_foreground_only, fgpid, banner, lastKind, launched,
                   fgOutcome, main_input, main_args>>

ReapOne ==
    /\ pc = "reap"
    /\ \E c \in Pids :
         /\ child[c].phase = "zombie"
         /\ child' = [child EXCEPT ![c] = Reaped(child[c])]
         /\ out' = ReapMessage(c, TermStatus(child[c].term))
         /\ reports' = [reports EXCEPT ![c] = @ + 1]
    /\ UNCHANGED <<pc, last_status, is_foreground_only, fgpid, banner,
                   lastKind, launched, assigns, fgOutcome, main_input, main_args>>

\* waitpid(-1, ..., WNOHANG) <= 0: the prompt is displayed and fgets blocks
PollIsOver_PollOnce(ch) == TRUE
PollIsOver_Blocking(ch) == \A c \in Pids : ch[c].phase \in {"none", "reaped"}
PollIsOver(ch) == \A c \in Pids : ch[c].phase # "zombie"

ReapDone ==
    /\ pc = "reap"
    /\ PollIsOver(child)
    /\ pc' = "prompt"
    /\ out' = <<": ">>
    /\ lastKind' = "none"
    /\ launched' = 0
    /\ assigns' = 0
    /\ UNCHANGED <<last_status, is_foreground_only, fgpid, child, banner,
                   fgOutcome, reports, main_input, main_args>>

(****************************** specification ******************************)
Init ==
    /\ pc = "reap"
    /\ last_status = 0
    /\ is_foreground_only = 0
    /\ fgpid = 0
    /\ child = [p \in Pids |-> NoChild]
    /\ out = <<>>
    /\ banner = NoBanner
    /\ lastKind = "none"
    /\ launched = 0
    /\ assigns = 0
    /\ fgOutcome = <<"exit", 0>>
    /\ reports = [p \in Pids |-> 0]
    /\ main_input = <<>>
    /\ main_args = <<>>

ChildStep ==
    \E c \in Pids :
        \/ ChildSignalInt(c)
        \/ ChildSignalTstp(c)
        \/ ChildExec(c)
        \/ ChildExit(c)
        \/ \E sig \in SentToChild : Deliver(c, sig)

Next ==
    \/ ReapOne
    \/ ReapDone
    \/ ReadLine
    \/ ReadError
    \/ FgWait
    \/ \E sig \in {SIGINT, SIGTSTP} : ShellSignal(sig)
    \/ ChildStep

Spec == Init /\ [][Next]_vars

(*********** the launch of one invocation, for any sequence of tokens *******)
LaunchWords == {W_f, W_g, W_lt, W_gt}
\* a command line of up to MaxArgs tokens, with or without a trailing "&"
LaunchLines ==
    {Join(ts \o amp) : ts \in TokSeqs(LaunchWords, MaxArgs),
                       amp \in {<<>>, <<W_amp>>}}

\* the interpreter at its first prompt
FirstPrompt ==
    [pc |-> "prompt", last_status |-> 0, is_foreground_only |-> 0, fgpid |-> 0,
     child |-> [p \in Pids |-> NoChild], out |-> <<": ">>, launched |-> 0]

\* the state once the first line typed has been read and fork() has succeeded
InitLaunch ==
    \E line \in LaunchLines :
        LET r == LineEffect(FirstPrompt, line, TRUE, "continue")
        IN /\ pc = r.pc
           /\ last_status = r.last_status
           /\ is_foreground_only = r.is_foreground_only
           /\ fgpid = r.fgpid
           /\ child = r.child
           /\ out = r.out
           /\ banner = NoBanner
           /\ lastKind = LineKind(line)
           /\ launched = r.launched
           /\ assigns = 0
           /\ fgOutcome = <<"exit", 0>>
           /\ reports = [p \in Pids |-> 0]
           /\ main_input = <<>>
           /\ main_args = <<>>

\* the child's steps, and the interpreter up to its next prompt
NextLaunch ==
    \/ ChildStep
    \/ FgWait
    \/ ReapOne
    \/ ReapDone

SpecLaunch == InitLaunch /\ [][NextLaunch]_vars

(************* one line through expandPID and parseInput, by steps *********)
\* the sizes of main's input (and expandPID's temp) and of main's args
MAX_LENGTH == 2048
MAX_ARGS == 512
\* length of the short lines typed
MaxLineLen == 4

LineChars == {"$", "a", SP}
\* k copies of unit, one after the other
Rep(unit, k) == [i \in 1..(k * Len(unit)) |-> unit[((i - 1) % Len(unit)) + 1]]

ShortLines == UNION {[1..k -> LineChars] : k \in 1..MaxLineLen}
EchoPid == <<"e", "c", "h", "o", SP>> \o pid_placeholder
\* lines at and near the greatest length fgets(input, MAX_LENGTH, stdin) takes,
\* ending in one "$$", and lines of about MAX_ARGS one-character tokens
LongLines ==
    {Rep(<<"a">>, MAX_LENGTH - 1 - n) \o pid_placeholder : n \in {2, 4}}
    \cup {Rep(<<"a", SP>>, k) : k \in {MAX_ARGS - 1, MAX_ARGS, MAX_ARGS + 1}}
\* what fgets and line 307 leave in input, blank lines and comments aside
TypedLines == ShortLines \cup {EchoPid} \cup LongLines

\* a write past the end of temp, input or args is undefined: the process
\* faults, or goes on with the memory behind the array overwritten
OverrunOutcomes == {"crashed", "overrun"}

\* strtok(., " "): where the next token starts (0: there is none) and the
\* place of the delimiter that ends it (Len + 1: the end of the string)
TokenStart(s) ==
    IF \A i \in 1..Len(s) : s[i] = SP THEN 0
    ELSE CHOOSE i \in 1..Len(s) : s[i] # SP /\ \A j \in 1..(i - 1) : s[j] = SP
TokenEnd(s, b) ==
    IF \A i \in b..Len(s) : s[i] # SP THEN Len(s) + 1
    ELSE CHOOSE i \in b..Len(s) : s[i] = SP /\ \A j \in b..(i - 1) : s[j] # SP

\* one iteration of the while loop of expandPID (lines 244-251)
ExpandStep ==
    /\ pc = "expand"
    /\ LET found == StrStr(main_input, pid_placeholder)
           temp == SubSeq(main_input, 1, found - 1) \o Decimal(ShellPid)
                   \o SubSeq(main_input, found + Len(pid_placeholder),
                             Len(main_input))
       IN /\ found # 0
          /\ IF Len(temp) + 1 > MAX_LENGTH
             THEN /\ \E o \in OverrunOutcomes : pc' = o
                  /\ UNCHANGED main_input
             ELSE /\ pc' = pc
                  /\ main_input' = temp
    /\ UNCHANGED <<last_status, is_foreground_only, fgpid, child, out, banner,
                   lastKind, launched, assigns, fgOutcome, reports, main_args>>

\* strstr finds no "$$": expandPID returns, parseInput sets *arg_count = 0
ExpandDone ==
    /\ pc = "expand"
    /\ StrStr(main_input, pid_placeholder) = 0
    /\ pc' = "parse"
    /\ main_args' = <<>>
    /\ UNCHANGED <<last_status, is_foreground_only, fgpid, child, out, banner,
                   lastKind, launched, assigns, fgOutcome, reports, main_input>>

\* one iteration of the while loop of parseInput (lines 224-227);
\* main_input keeps what strtok has not scanned yet
ParseStep ==
    /\ pc = "parse"
    /\ LET b == TokenStart(main_input)
           e == TokenEnd(main_input, b)
       IN /\ b # 0
          /\ IF Len(main_args) + 1 > MAX_ARGS
             THEN /\ \E o \in OverrunOutcomes : pc' = o
                  /\ UNCHANGED <<main_input, main_args>>
             ELSE /\ pc' = pc
                  /\ main_args' = Append(main_args, SubSeq(main_input, b, e - 1))
                  /\ main_input' = SubSeq(main_input, e + 1, Len(main_input))
    /\ UNCHANGED <<last_status, is_foreground_only, fgpid, child, out, banner,
                   lastKind, launched, assigns, fgOutcome, reports>>

\* strtok yields no token: args[*arg_count] = NULL (line 229)
ParseDone ==
    /\ pc = "parse"
    /\ TokenStart(main_input) = 0
    /\ IF Len(main_args) + 1 > MAX_ARGS
       THEN \E o \in OverrunOutcomes : pc' = o
       ELSE pc' = "parsed"
    /\ UNCHANGED <<last_status, is_foreground_only, fgpid, child, out, banner,
                   lastKind, launched, assigns, fgOutcome, reports,
                   main_input, main_args>>

\* main at line 315, with a line that is neither blank nor a comment in input
InitLine ==
    /\ pc = "expand"
    /\ main_input \in TypedLines
    /\ main_args = <<>>
    /\ last_status = 0
    /\ is_foreground_only = 0
    /\ fgpid = 0
    /\ child = [p \in Pids |-> NoChild]
    /\ out = <<": ">>
    /\ banner = NoBanner
    /\ lastKind = "none"
    /\ launched = 0
    /\ assigns = 0
    /\ fgOutcome = <<"exit", 0>>
    /\ reports = [p \in Pids |-> 0]

NextLine ==
    \/ ExpandStep
    \/ ExpandDone
    \/ ParseStep
    \/ ParseDone

SpecLine == InitLine /\ [][NextLine]_vars

(********************************* claims **********************************)
Terminated(ch) == ch.phase \in {"zombie", "reaped"}
Operators == {W_lt, W_gt}

\* C1: while a child launched without "&" has not exited or been killed, the
\* interpreter neither polls nor prompts: whenever main is at the Reaper or at
\* the prompt, every foreground child ever launched has terminated and been
\* collected; stops of the child and signals to the interpreter do not end
\* the wait.
C1_PromptOnlyAfterForegroundEnded ==
    pc \in {"reap", "prompt"} =>
        \A c \in Pids :
            (child[c].phase # "none" /\ ~child[c].bg) => child[c].phase = "reaped"

\* the wait has seen the foreground child stopped, and goes on
C1_Witness ==
    /\ pc = "fgwait"
    /\ child[fgpid].phase = "running"
    /\ child[fgpid].stop # 0 /\ ~child[fgpid].notify

\* C2: the step that reads a "status" line prints the outcome of the last
\* foreground child waited for: "exit value N" (0 before any), or
\* "terminated by signal S".
C2_StatusReportsLastForeground ==
    [][(pc = "prompt" /\ lastKind' = "status") =>
          out' = IF fgOutcome[1] = "exit" THEN <<"exit value", fgOutcome[2]>>
                 ELSE <<"terminated by signal", fgOutcome[2]>>]_vars

\* status after a foreground child was killed and a background child reaped
C2_Witness ==
    /\ lastKind = "status"
    /\ out = <<"terminated by signal", SIGKILL>>
    /\ \E c \in Pids : reports[c] = 1

\* C3: a launch in the background prints the pid and goes back to the top of
\* the loop without waiting; each report of the Reaper names the pid and how
\* the child ended; and when the Reaper's polling ends and the prompt is shown,
\* every background child that had terminated has been reported.
C3_BackgroundReportedLater ==
    [][/\ \A c \in Pids :
            (child[c].phase = "none" /\ child'[c].phase # "none" /\ child'[c].bg)
                => /\ pc' = "reap"
                   /\ out' = <<"Background pid is", c>>
                   /\ child'[c].phase = "forked"
       /\ \A c \in Pids :
            reports'[c] # reports[c]
                => /\ child[c].phase = "zombie" /\ child'[c].phase = "reaped"
                   /\ out' = <<"Background pid", c,
                               IF child[c].term.kind = "exit"
                               THEN "is done: exit value"
                               ELSE "is done: terminated by signal",
                               child[c].term.n>>
       /\ (pc = "reap" /\ pc' = "prompt")
            => \A c \in Pids :
                  (child[c].bg /\ Terminated(child[c])) => reports'[c] >= 1]_vars

\* a background child has been reported and the prompt is shown
C3_Witness ==
    /\ pc = "prompt"
    /\ \E c \in Pids : child[c].bg /\ reports[c] = 1

\* C4: while foreground-only mode is set, the child a line ending in "&"
\* launches is a foreground child, and the interpreter waits for it.
C4_BackgroundDemoted ==
    [][(pc = "prompt" /\ is_foreground_only = 1 /\ lastKind' = "bg"
        /\ launched' # 0)
          => (~child'[launched'].bg /\ pc' = "fgwait")]_vars

\* C5: the interpreter ends by the exit built-in only.
C5_OnlyExitEnds ==
    /\ pc \in {"reap", "prompt", "fgwait", "exited"}
    /\ pc = "exited" => lastKind = "exit"

\* C6: the argument vector of a launched program holds no "<", no ">" and no
\* token that follows one on the line.
C6_NoRedirectionInArgv ==
    \A c \in Pids :
        child[c].phase = "running" =>
            LET argv == child[c].argv
                cmd == child[c].cmd
            IN /\ Len(argv) <= Len(cmd)
               /\ \A j \in 1..Len(argv) :
                     /\ argv[j] = cmd[j]
                     /\ cmd[j] \notin Operators
                     /\ j > 1 => cmd[j - 1] \notin Operators

\* a program runs whose line had a redirection after its name
C6_Witness ==
    \E c \in Pids :
        /\ child[c].phase = "running"
        /\ Len(child[c].argv) >= 1
        /\ Len(child[c].cmd) > Len(child[c].argv)

HasToken(cmd, op) == \E i \in 1..Len(cmd) : cmd[i] = op
\* the token after the last op of the line
LastTarget(cmd, op) ==
    LET i == CHOOSE k \in 1..Len(cmd) :
                 cmd[k] = op /\ \A m \in (k + 1)..Len(cmd) : cmd[m] # op
    IN File(cmd[i + 1])

\* C7: when a program is launched, a stream with a "<" (">") on the line is
\* the file named after the last one; without it the stream is /dev/null for
\* a background child and the terminal for a foreground child.
C7_DefaultStreams ==
    \A c \in Pids :
        child[c].phase = "running" =>
            LET ch == child[c]
                absent == IF ch.bg THEN DevNull ELSE Tty
            IN /\ ch.fds[STDIN_FILENO] =
                     IF HasToken(ch.cmd, W_lt) THEN LastTarget(ch.cmd, W_lt)
                     ELSE absent
               /\ ch.fds[STDOUT_FILENO] =
                     IF HasToken(ch.cmd, W_gt) THEN LastTarget(ch.cmd, W_gt)
                     ELSE absent

\* a background program reads a file it named and writes to /dev/null
C7_Witness ==
    \E c \in Pids :
        /\ child[c].phase = "running" /\ child[c].bg
        /\ HasToken(child[c].cmd, W_lt) /\ ~HasToken(child[c].cmd, W_gt)
        /\ child[c].fds[STDIN_FILENO] = File(W_g)
        /\ child[c].fds[STDOUT_FILENO] = DevNull

\* C8 as stated: in a cycle that read a foreground command, last_status has
\* been assigned exactly once when the cycle's work is done.
C8_AssignedOnceWhateverFork ==
    (pc = "reap" /\ lastKind = "fg") => assigns = 1

\* C8, amended: exactly once when fork() gave a child, not at all when it failed.
C8_AssignedOnceIfForked ==
    (pc = "reap" /\ lastKind = "fg") =>
        assigns = IF launched # 0 THEN 1 ELSE 0

\* a foreground child was stopped, continued and then ended: one assignment
C8_Witness ==
    /\ pc = "reap" /\ lastKind = "fg" /\ launched # 0
    /\ assigns = 1
    /\ child[launched].phase = "reaped"

\* C9: last_status is assigned only by the step that ends a foreground wait.
C9_OnlyForegroundWaitAssigns ==
    [][(last_status' # last_status \/ assigns' > assigns) =>
          /\ pc = "fgwait" /\ pc' = "reap"
          /\ child[fgpid].phase = "zombie" /\ child'[fgpid].phase = "reaped"]_vars

\* after a foreground child exited with 1: a background child was reaped, the
\* mode was toggled and cd was run, and last_status is still that exit
C9_Witness ==
    /\ pc = "reap" /\ lastKind = "cd"
    /\ last_status = 256
    /\ is_foreground_only = 1
    /\ \E c \in Pids : reports[c] = 1

\* C10: a launched foreground program has SIGINT at its default and SIGTSTP
\* ignored; a background one ignores both; no signal ends or stops the
\* interpreter.
C10_SignalProfiles ==
    /\ \A c \in Pids :
          child[c].phase = "running" =>
              /\ child[c].sigint = IF child[c].bg THEN "ign" ELSE "dfl"
              /\ child[c].sigtstp = "ign"
    /\ pc \notin {"killed", "suspended"}

\* a foreground and a background program run, and the interpreter has handled
\* a SIGTSTP
C10_Witness ==
    /\ is_foreground_only = 1
    /\ \E c, d \in Pids :
          /\ child[c].phase = "running" /\ child[c].bg
          /\ child[d].phase = "running" /\ ~child[d].bg

\* C11: every step in which SIGTSTP reaches the interpreter, and every step
\* that changes the mode or the banner, flips the mode between 0 and 1 (so two
\* deliveries in a row restore it) and writes one banner: the 50 bytes of the
\* "Entering" message when the mode becomes 1, the 30 bytes of the "Exiting"
\* message when it becomes 0, each the whole message.
C11_ToggleAndBanner ==
    [][(\/ ShellSignal(SIGTSTP)
        \/ banner' # banner
        \/ is_foreground_only' # is_foreground_only) =>
          /\ is_foreground_only \in {0, 1}
          /\ is_foreground_only' = 1 - is_foreground_only
          /\ banner'.msg = IF is_foreground_only' = 1 THEN EnterMsg ELSE ExitMsg
          /\ banner'.bytes = IF is_foreground_only' = 1 THEN 50 ELSE 30
          /\ banner'.bytes = Len(banner'.msg)]_vars

\* the mode is back at 0 after two deliveries, and the last banner is "Exiting"
C11_Witness ==
    /\ is_foreground_only = 0
    /\ banner = [msg |-> ExitMsg, bytes |-> 30]

Builtins == {W_exit, W_cd, W_status}

\* C12: the step that reads a line whose first token is "exit", "cd" or
\* "status", with or without a trailing "&", creates no child and leaves main
\* at the top of its loop (or ends it, for exit); the step that reads a line
\* with another first token goes through executeCommand: it forks a child for
\* the tokens of the line, or fork() fails; and fork() is called, so that a
\* child is there whenever fork() succeeds.
C12_BuiltinsInProcess ==
    [][pc = "prompt" =>
          /\ lastKind' \in {"exit", "cd", "status"} =>
                /\ child' = child /\ launched' = 0 /\ fgpid' = 0
                /\ pc' = IF lastKind' = "exit" THEN "exited" ELSE "reap"
                /\ lastKind' = "status" => out' = StatusMessage(last_status)
          /\ lastKind' \in {"fg", "bg"} =>
                \/ /\ launched' \in FreePids(child)
                   /\ child'[launched'].phase = "forked"
                   /\ child'[launched'].bg = (lastKind' = "bg")
                   /\ child'[launched'].cmd[1] \notin Builtins
                \/ child' = child /\ launched' = 0 /\ pc' = "reap"
          /\ \A line \in Lines :
                (LineKind(line) \in {"fg", "bg"} /\ FreePids(child) # {}) =>
                    LineEffect(Here, line, TRUE, "continue").launched
                        \in FreePids(child)]_vars

\* "status" has been run while a background child was running and a pid was
\* free: no child was created
C12_Witness ==
    /\ pc = "reap" /\ lastKind = "status" /\ launched = 0
    /\ FreePids(child) # {}
    /\ \E c \in Pids : child[c].bg /\ child[c].phase = "running"

\* C13: while a line the reader accepted is expanded and split, nothing is
\* written past the end of a buffer: the text and its terminator fit in
\* MAX_LENGTH bytes, the tokens and the null entry in MAX_ARGS entries.
C13_WithinCapacity ==
    /\ pc \notin OverrunOutcomes
    /\ Len(main_input) + 1 <= MAX_LENGTH
    /\ Len(main_args) + 1 <= MAX_ARGS

OperatorCount(cmd) == Cardinality({i \in 1..Len(cmd) : cmd[i] \in Operators})

\* C14: a launched program has descriptors 0, 1 and 2 open and no other,
\* whatever "<" and ">" its line had and whether or not it runs in the
\* background: each descriptor the child opened was closed after dup2.
C14_OnlyStandardStreams ==
    \A c \in Pids :
        child[c].phase = "running" =>
            DOMAIN child[c].fds = {STDIN_FILENO, STDOUT_FILENO, 2}

\* a background program with two redirections of its input runs: three
\* descriptors were opened (two files and /dev/null) and closed
C14_Witness ==
    \E c \in Pids :
        /\ child[c].phase = "running" /\ child[c].bg
        /\ OperatorCount(child[c].cmd) = 2
        /\ ~HasToken(child[c].cmd, W_gt)
        /\ child[c].fds[STDIN_FILENO] = File(W_g)
        /\ child[c].fds[STDOUT_FILENO] = DevNull

\* the text s read from left to right, each "$$" met replaced by pid
RECURSIVE Replaced(_, _)
Replaced(s, pid) ==
    IF Len(s) = 0 THEN <<>>
    ELSE IF Len(s) >= 2 /\ s[1] = "$" /\ s[2] = "$"
         THEN pid \o Replaced(SubSeq(s, 3, Len(s)), pid)
         ELSE <<s[1]>> \o Replaced(Tail(s), pid)
\* the places where a "$$" starts in s
Occurrences(s) == {i \in 1..(Len(s) - 1) : s[i] = "$" /\ s[i + 1] = "$"}
\* the lines short enough to be read through by Replaced
IsShort(s) == Len(s) <= 3 * MaxLineLen

\* C15: for the text in input, expanded or not yet, expandPID yields the text
\* with each "$$", taken from left to right, replaced by "4567" and every
\* other character kept in place, and that text holds no "$$"; each
\* iteration of its loop removes at least one place where a "$$" starts (so
\* the loop ends) and does not change the result; tokens are taken only from
\* a text without "$$"; and "echo $$" gives the tokens "echo", "4567".
C15_ExpansionReplacesAll ==
    [][/\ (pc = "expand" /\ IsShort(main_input)) =>
             /\ expandPID(main_input) = Replaced(main_input, <<"4", "5", "6", "7">>)
             /\ Occurrences(expandPID(main_input)) = {}
       /\ (pc = "expand" /\ pc' = "expand") =>
             /\ Cardinality(Occurrences(main_input'))
                    < Cardinality(Occurrences(main_input))
             /\ expandPID(main_input') = expandPID(main_input)
       /\ (pc = "expand" /\ pc' = "parse") =>
             /\ main_input' = main_input
             /\ Occurrences(main_input) = {}
       /\ pc = "parse" => Occurrences(main_input) = {}
       /\ parseInput(expandPID(EchoPid))
             = <<(<<"e", "c", "h", "o">>), (<<"4", "5", "6", "7">>)>>]_vars

\* "$$$$" has been expanded in two iterations, and the line is being split
C15_Witness ==
    /\ pc = "parse"
    /\ main_input = <<"4", "5", "6", "7", "4", "5", "6", "7">>

\* the tokens of cmd read from left to right, without each operator and the
\* token that follows it
RECURSIVE Ordinary(_)
Ordinary(cmd) ==
    IF Len(cmd) = 0 THEN <<>>
    ELSE IF cmd[1] \in Operators THEN Ordinary(SubSeq(cmd, 3, Len(cmd)))
    ELSE <<cmd[1]>> \o Ordinary(Tail(cmd))

\* C16: the argument vector of a launched program is the tokens of its
\* invocation, in order, without the redirection operators and their path
\* tokens; the tokens after a redirection are in it.
C16_ArgvKeepsOrdinaryTokens ==
    \A c \in Pids :
        child[c].phase = "running" => child[c].argv = Ordinary(child[c].cmd)

\* C17: when the step of a child from its redirections to execvp does not
\* start the program (an open() failed, or execvp did not replace the image),
\* the child ends by exit with a code that is not 0; and when the interpreter
\* collects a foreground child that ended by exit, last_status holds that
\* exit code and main goes on to its next cycle.
C17_FailedLaunchExitsNonZero ==
    [][/\ \A c \in Pids :
            (ChildExec(c) /\ child'[c].phase # "running") =>
                /\ child'[c].phase = "zombie"
                /\ child'[c].term.kind = "exit"
                /\ child'[c].term.n # 0
       /\ (pc = "fgwait" /\ child[fgpid].phase = "zombie"
           /\ child[fgpid].term.kind = "exit") =>
                (FgWait =>
                    /\ pc' = "reap"
                    /\ WIFEXITED(last_status')
                    /\ WEXITSTATUS(last_status') = child[fgpid].term.n)]_vars

\* C18: at the top of the loop the Reaper can always take a step, whether
\* or not children are still running: it reports a terminated child or, when
\* there is none, lets the prompt be displayed; at that step every background
\* child that has terminated has been reported; no child is reported twice
\* over the run, and a child launched in the foreground is never reported.
C18_ReaperPollsWithoutBlocking ==
    [][/\ pc = "reap" => ENABLED (ReapOne \/ ReapDone)
       /\ (pc = "reap" /\ pc' = "prompt") =>
             \A c \in Pids :
                 (child[c].bg /\ Terminated(child[c])) => reports[c] = 1
       /\ \A c \in Pids :
             /\ reports'[c] <= 1
             /\ reports'[c] # reports[c] => child[c].bg
             /\ ~child'[c].bg => reports'[c] = 0]_vars

\* the prompt is displayed while one background child has been reported and
\* another is still running
C18_Witness ==
    /\ pc = "prompt"
    /\ \E c, d \in Pids :
          /\ child[c].bg /\ child[c].phase = "reaped" /\ reports[c] = 1
          /\ child[d].bg /\ child[d].phase = "running"

\* the paths of the redirections of cmd when each operator takes the token
\* after it as its path and the scan goes on behind that token (NULL: none)
RECURSIVE Targets(_, _)
Targets(cmd, acc) ==
    IF Len(cmd) < 2 THEN acc
    ELSE IF cmd[1] = W_lt
         THEN Targets(SubSeq(cmd, 3, Len(cmd)), [acc EXCEPT !.in = cmd[2]])
    ELSE IF cmd[1] = W_gt
         THEN Targets(SubSeq(cmd, 3, Len(cmd)), [acc EXCEPT !.out = cmd[2]])
    ELSE Targets(Tail(cmd), acc)

\* C19: the streams of a launched program are those of its redirections when
\* the token after an operator is only a path, also when it reads "<" or ">":
\* the last such path for each stream, and without one /dev/null for a
\* background child and the terminal for a foreground child.
C19_PathTokenNotScanned ==
    \A c \in Pids :
        child[c].phase = "running" =>
            LET ch == child[c]
                t == Targets(ch.cmd, [in |-> NULL, out |-> NULL])
                absent == IF ch.bg THEN DevNull ELSE Tty
            IN /\ ch.fds[STDIN_FILENO] = IF t.in = NULL THEN absent ELSE File(t.in)
               /\ ch.fds[STDOUT_FILENO] = IF t.out = NULL THEN absent ELSE File(t.out)

BeforeExec(ch) == ch.phase \in {"forked", "sigint_set", "ready"}

\* C20: between fork() and execvp no step changes a child's copy of the
\* mode flag (the child never runs handleSIGTSTP, which toggles it and writes
\* a banner), and a SIGINT delivered to a background child leaves it as it is.
C20_ChildNeverRunsHandler ==
    [][\A c \in Pids :
          /\ (BeforeExec(child[c]) /\ BeforeExec(child'[c])) =>
                child'[c].fo = child[c].fo
          /\ (BeforeExec(child[c]) /\ child[c].bg /\ Deliver(c, SIGINT)) =>
                child'[c] = child[c]]_vars
=============================================================================
